---- MODULE Spec2Model ----
(***************************************************************************)
(* Model of the authentication service (AutenticacaoService.login and      *)
(* AutenticacaoService.refreshToken) and of the OngController request      *)
(* handlers of src/backend.                                                *)
(*                                                                         *)
(* The repository class AutenticacaoRepository (buscarPorEmail,            *)
(* gerarToken, gerarRefreshToken) is not part of the sources at hand; it   *)
(* is modelled from the specification: a lookup by e-mail that returns the *)
(* stored row or null and may raise, and two issuers that sign the public  *)
(* claims with the access secret and with the refresh secret.              *)
(***************************************************************************)
EXTENDS Integers, FiniteSets, Sequences, TLC

\* ------------------------------------------------------------------ bounds
MaxTime == 2
MaxPool == 1

\* ----------------------------------------------------- configuration values
\* Token lifetimes in clock ticks (access shorter than refresh).
AccessTTL == 1
RefreshTTL == 2

\* The two signing secrets of the process environment, and a key that does
\* not belong to the service.
SECRET == "SECRET"
SECRET_REFRESH == "SECRET_REFRESH"
ChaveAlheia == "chave-alheia"

Emails == {"a@x.com", "b@x.com"}
Senhas == {"s1", "s2"}
\* The values a user's row takes over time: the initial one, one with a
\* changed password, one with a changed name, one with a changed role.
Versoes ==
  { [nome |-> "Ana", perfil |-> "admin", senha |-> "s1"],
    [nome |-> "Ana", perfil |-> "admin", senha |-> "s2"],
    [nome |-> "Bia", perfil |-> "admin", senha |-> "s1"],
    [nome |-> "Ana", perfil |-> "staff", senha |-> "s1"] }
Chamadas == {"c1"}

Nulo == [tipo |-> "nulo"]

VARIABLES
  usuarios,   \* credential store: e-mail -> stored row or Nulo
  agora,      \* clock
  chamada,    \* per call: position in login / refreshToken and its locals
  carteira,   \* bundles the callers hold (client side, not service state)
  trocados,   \* refresh tokens of the carteira already exchanged once
  pedido      \* per HTTP request: position in an OngController handler

authVars == <<usuarios, agora, chamada, carteira, trocados>>
vars == <<usuarios, agora, chamada, carteira, trocados, pedido>>

\* ------------------------------------------------------------- token codec
SemClaims == [id |-> 0, email |-> "", nome |-> "", perfil |-> ""]
SemPayload == [usuario |-> SemClaims, iat |-> 0, exp |-> 0]

\* Signature of a payload under a key (ideal MAC: determined by both).
Assinar(payload, chave) == [chave |-> chave, sobre |-> payload]

\* jsonwebtoken sign(payload, secret, {expiresIn}).
sign(conteudo, chave, ttl, t) ==
  LET payload == [usuario |-> conteudo, iat |-> t, exp |-> t + ttl]
  IN  [forma |-> "jwt", payload |-> payload, sig |-> Assinar(payload, chave)]

SemToken == [forma |-> "nenhum", payload |-> SemPayload,
             sig |-> Assinar(SemPayload, "")]
Lixo == [forma |-> "lixo", payload |-> SemPayload,
         sig |-> Assinar(SemPayload, "")]

\* jsonwebtoken verify(token, secret): decode, then signature, then expiry.
verify(token, chave, t) ==
  IF token.forma # "jwt"
    THEN [tipo |-> "erro", name |-> "JsonWebTokenError", message |-> "jwt malformed"]
  ELSE IF token.sig # Assinar(token.payload, chave)
    THEN [tipo |-> "erro", name |-> "JsonWebTokenError", message |-> "invalid signature"]
  ELSE IF t >= token.payload.exp
    THEN [tipo |-> "erro", name |-> "TokenExpiredError", message |-> "jwt expired"]
  ELSE [tipo |-> "ok", usuario |-> token.payload.usuario,
        iat |-> token.payload.iat, exp |-> token.payload.exp]

\* ------------------------------------------------------ repository (store)
buscarPorEmail(email) == usuarios[email]

Claims(usuario) ==
  [id |-> usuario.id, email |-> usuario.email,
   nome |-> usuario.nome, perfil |-> usuario.perfil]

gerarToken(usuario, t) == sign(Claims(usuario), SECRET, AccessTTL, t)

gerarRefreshToken(usuario, t) == sign(Claims(usuario), SECRET_REFRESH, RefreshTTL, t)

\* ------------------------------------------------------ service: outcomes
Erro(msg) == [tipo |-> "erro", message |-> msg]
Indefinido == [tipo |-> "undefined"]
ErroDoRepositorio == Erro("SequelizeConnectionError")
EmailOuSenhaInvalidos == Erro("Email ou senha invalidos")
RefreshTokenInvalido == Erro("Refresh Token invalido")

\* Variant: the whole row is returned as the profile.
UsuarioPublico_comSenha(usuario) ==
  [id |-> usuario.id, email |-> usuario.email,
   nome |-> usuario.nome, perfil |-> usuario.perfil, senha |-> usuario.senha]

\* The object literal `usuario: { id, email, nome, perfil }`.
UsuarioPublico(usuario) ==
  [id |-> usuario.id, email |-> usuario.email,
   nome |-> usuario.nome, perfil |-> usuario.perfil]

Bundle(token, usuario, refresh) ==
  [tipo |-> "ok", token |-> token, usuario |-> UsuarioPublico(usuario),
   refreshToken |-> refresh]

\* Locals of a call (pc, op, credenciais, refreshToken, decoded, usuario,
\* token, resultado) and what an observer of the call records: when it
\* began (inicio), how the lookup ended (busca) and with which row (lido),
\* how many lookups (buscas) and issuances (emitidos) it made.
SemCred == [email |-> "", senha |-> ""]
Ocioso ==
  [pc |-> "ocioso", op |-> "nenhuma", credenciais |-> SemCred,
   refreshToken |-> SemToken, decoded |-> Nulo, busca |-> "nao",
   usuario |-> Nulo, token |-> SemToken, resultado |-> Nulo,
   inicio |-> 0, lido |-> Nulo, emitidos |-> 0, buscas |-> 0]

\* ------------------------------------------------------------------- Init
UsuarioA ==
  [tipo |-> "usuario", id |-> 1, email |-> "a@x.com", nome |-> "Ana",
   perfil |-> "admin", senha |-> "s1"]

AuthInit ==
  /\ usuarios = [e \in Emails |-> IF e = "a@x.com" THEN UsuarioA ELSE Nulo]
  /\ agora = 0
  /\ chamada = [c \in Chamadas |-> Ocioso]
  /\ carteira = {}
  /\ trocados = {}

\* ------------------------------------------------------------------ login
\* `usuario && usuario.senha === credenciais.senha`
CredencialConfere(usuario, credenciais) ==
  /\ usuario # Nulo
  /\ usuario.senha = credenciais.senha

\* login is called: the lookup is started and awaited.
login(c) ==
  /\ chamada[c].pc = "ocioso"
  /\ \E email \in Emails, senha \in Senhas :
       chamada' = [chamada EXCEPT ![c] =
         [Ocioso EXCEPT !.pc = "buscar", !.op = "login", !.inicio = agora,
                        !.credenciais = [email |-> email, senha |-> senha]]]
  /\ UNCHANGED <<usuarios, agora, carteira, trocados, pedido>>

\* Variant: an unknown e-mail is reported with a message of its own.
loginBuscou_distingueAusente(c) ==
  LET ch == chamada[c]
      usuario == buscarPorEmail(ch.credenciais.email)
  IN
  /\ ch.pc = "buscar"
  /\ ch.op = "login"
  /\ chamada' = [chamada EXCEPT ![c] =
       IF CredencialConfere(usuario, ch.credenciais)
         THEN [ch EXCEPT !.pc = "gerarToken", !.usuario = usuario,
                         !.busca = "achou", !.lido = usuario,
                         !.buscas = @ + 1]
         ELSE [ch EXCEPT !.pc = "fim", !.usuario = usuario,
                         !.busca = IF usuario = Nulo THEN "nulo" ELSE "achou",
                         !.lido = usuario, !.buscas = @ + 1,
                         !.resultado = IF usuario = Nulo
                                         THEN Erro("Usuario nao encontrado")
                                         ELSE EmailOuSenhaInvalidos]]
  /\ UNCHANGED <<usuarios, agora, carteira, trocados, pedido>>

\* The awaited lookup resolves with the row or null; the credential test
\* then either goes on to issue the tokens or throws.
loginBuscou(c) ==
  LET ch == chamada[c]
      usuario == buscarPorEmail(ch.credenciais.email)
  IN
  /\ ch.pc = "buscar"
  /\ ch.op = "login"
  /\ chamada' = [chamada EXCEPT ![c] =
       IF CredencialConfere(usuario, ch.credenciais)
         THEN [ch EXCEPT !.pc = "gerarToken", !.usuario = usuario,
                         !.busca = "achou", !.lido = usuario,
                         !.buscas = @ + 1]
         ELSE [ch EXCEPT !.pc = "fim", !.usuario = usuario,
                         !.busca = IF usuario = Nulo THEN "nulo" ELSE "achou",
                         !.lido = usuario, !.buscas = @ + 1,
                         !.resultado = EmailOuSenhaInvalidos]]
  /\ UNCHANGED <<usuarios, agora, carteira, trocados, pedido>>

\* The awaited lookup rejects: nothing in login catches it.
loginBuscaFalhou(c) ==
  LET ch == chamada[c] IN
  /\ ch.pc = "buscar"
  /\ ch.op = "login"
  /\ chamada' = [chamada EXCEPT ![c] =
       [ch EXCEPT !.pc = "fim", !.busca = "falhou", !.buscas = @ + 1,
                  !.resultado = ErroDoRepositorio]]
  /\ UNCHANGED <<usuarios, agora, carteira, trocados, pedido>>

\* `token: await autenticacaoRepository.gerarToken(usuario)` in login.
loginGerarToken(c) ==
  LET ch == chamada[c] IN
  /\ ch.pc = "gerarToken"
  /\ ch.op = "login"
  /\ chamada' = [chamada EXCEPT ![c] =
       [ch EXCEPT !.pc = "gerarRefreshToken",
                  !.token = gerarToken(ch.usuario, agora),
                  !.emitidos = @ + 1]]
  /\ UNCHANGED <<usuarios, agora, carteira, trocados, pedido>>

\* `refreshToken: await autenticacaoRepository.gerarRefreshToken(usuario)`
\* in login, then the return of the object.
loginGerarRefreshToken(c) ==
  LET ch == chamada[c] IN
  /\ ch.pc = "gerarRefreshToken"
  /\ ch.op = "login"
  /\ chamada' = [chamada EXCEPT ![c] =
       [ch EXCEPT !.pc = "fim", !.emitidos = @ + 1,
                  !.resultado = Bundle(ch.token, ch.usuario,
                                       gerarRefreshToken(ch.usuario, agora))]]
  /\ UNCHANGED <<usuarios, agora, carteira, trocados, pedido>>

\* ----------------------------------------------------------- refreshToken
\* Variant: the refresh token is verified with the access secret.
verifyRefresh_comSECRET(token, t) == verify(token, SECRET, t)

\* Variant: a refresh token that was exchanged once is refused afterwards.
verifyRefresh_usoUnico(token, t) ==
  IF token \in trocados
    THEN [tipo |-> "erro", name |-> "JsonWebTokenError", message |-> "revoked"]
    ELSE verify(token, SECRET_REFRESH, t)

\* `verify(refreshToken, process.env.SECRET_REFRESH)`
verifyRefresh(token, t) == verify(token, SECRET_REFRESH, t)

\* Tokens a caller can present: the ones it was given, and what can be made
\* without the service's secrets (garbage, a token signed with another key,
\* a token whose payload was altered after signing).
TokensDaCarteira == {b.token : b \in carteira} \cup {b.refreshToken : b \in carteira}
Reassinado(t) == [t EXCEPT !.sig = Assinar(t.payload, ChaveAlheia)]
Prorrogado(t) == [t EXCEPT !.payload.exp = MaxTime + 1]
Apresentaveis ==
  TokensDaCarteira \cup {Lixo}
    \cup {Reassinado(t) : t \in TokensDaCarteira}
    \cup {Prorrogado(t) : t \in TokensDaCarteira}

\* Variant: the catch block rethrows the error it caught.
refreshToken_repassaErro(c) ==
  /\ chamada[c].pc = "ocioso"
  /\ \E tk \in Apresentaveis :
       LET decoded == verifyRefresh(tk, agora) IN
       chamada' = [chamada EXCEPT ![c] =
         IF decoded.tipo = "ok"
           THEN [Ocioso EXCEPT !.pc = "buscar", !.op = "refresh",
                               !.inicio = agora,
                               !.refreshToken = tk, !.decoded = decoded]
           ELSE [Ocioso EXCEPT !.pc = "fim", !.op = "refresh",
                               !.inicio = agora,
                               !.refreshToken = tk, !.decoded = decoded,
                               !.resultado = Erro(decoded.message)]]
  /\ UNCHANGED <<usuarios, agora, carteira, trocados, pedido>>

\* refreshToken is called: verify runs synchronously; when it throws, the
\* catch block rethrows; otherwise the lookup is started and awaited.
refreshToken(c) ==
  /\ chamada[c].pc = "ocioso"
  /\ \E tk \in Apresentaveis :
       LET decoded == verifyRefresh(tk, agora) IN
       chamada' = [chamada EXCEPT ![c] =
         IF decoded.tipo = "ok"
           THEN [Ocioso EXCEPT !.pc = "buscar", !.op = "refresh",
                               !.inicio = agora,
                               !.refreshToken = tk, !.decoded = decoded]
           ELSE [Ocioso EXCEPT !.pc = "fim", !.op = "refresh",
                               !.inicio = agora,
                               !.refreshToken = tk, !.decoded = decoded,
                               !.resultado = RefreshTokenInvalido]]
  /\ UNCHANGED <<usuarios, agora, carteira, trocados, pedido>>

\* Variant: the tokens are issued from the claims of the presented token.
refreshBuscou_usaDecoded(c) ==
  LET ch == chamada[c]
      usuario == buscarPorEmail(ch.decoded.usuario.email)
  IN
  /\ ch.pc = "buscar"
  /\ ch.op = "refresh"
  /\ chamada' = [chamada EXCEPT ![c] =
       IF usuario # Nulo
         THEN [ch EXCEPT !.pc = "gerarToken", !.usuario = ch.decoded.usuario,
                         !.busca = "achou", !.lido = usuario,
                         !.buscas = @ + 1]
         ELSE [ch EXCEPT !.pc = "fim", !.usuario = usuario,
                         !.busca = "nulo", !.lido = usuario,
                         !.buscas = @ + 1,
                         !.resultado = Indefinido]]
  /\ UNCHANGED <<usuarios, agora, carteira, trocados, pedido>>

\* The awaited lookup resolves: with a row the tokens are issued; with null
\* the `if (usuario)` is skipped and the function ends without a return.
refreshBuscou(c) ==
  LET ch == chamada[c]
      usuario == buscarPorEmail(ch.decoded.usuario.email)
  IN
  /\ ch.pc = "buscar"
  /\ ch.op = "refresh"
  /\ chamada' = [chamada EXCEPT ![c] =
       IF usuario # Nulo
         THEN [ch EXCEPT !.pc = "gerarToken", !.usuario = usuario,
                         !.busca = "achou", !.lido = usuario,
                         !.buscas = @ + 1]
         ELSE [ch EXCEPT !.pc = "fim", !.usuario = usuario,
                         !.busca = "nulo", !.lido = usuario,
                         !.buscas = @ + 1,
                         !.resultado = Indefinido]]
  /\ UNCHANGED <<usuarios, agora, carteira, trocados, pedido>>

\* The awaited lookup rejects inside the try: the catch block rethrows.
refreshBuscaFalhou(c) ==
  LET ch == chamada[c] IN
  /\ ch.pc = "buscar"
  /\ ch.op = "refresh"
  /\ chamada' = [chamada EXCEPT ![c] =
       [ch EXCEPT !.pc = "fim", !.busca = "falhou", !.buscas = @ + 1,
                  !.resultado = RefreshTokenInvalido]]
  /\ UNCHANGED <<usuarios, agora, carteira, trocados, pedido>>

\* `token: await autenticacaoRepository.gerarToken(usuario)` in refreshToken.
refreshGerarToken(c) ==
  LET ch == chamada[c] IN
  /\ ch.pc = "gerarToken"
  /\ ch.op = "refresh"
  /\ chamada' = [chamada EXCEPT ![c] =
       [ch EXCEPT !.pc = "gerarRefreshToken",
                  !.token = gerarToken(ch.usuario, agora),
                  !.emitidos = @ + 1]]
  /\ UNCHANGED <<usuarios, agora, carteira, trocados, pedido>>

\* `refreshToken: await autenticacaoRepository.gerarRefreshToken(usuario)`
\* in refreshToken, then the return of the object.
refreshGerarRefreshToken(c) ==
  LET ch == chamada[c] IN
  /\ ch.pc = "gerarRefreshToken"
  /\ ch.op = "refresh"
  /\ chamada' = [chamada EXCEPT ![c] =
       [ch EXCEPT !.pc = "fim", !.emitidos = @ + 1,
                  !.resultado = Bundle(ch.token, ch.usuario,
                                       gerarRefreshToken(ch.usuario, agora))]]
  /\ UNCHANGED <<usuarios, agora, carteira, trocados, pedido>>

\* ------------------------------------------------------------ environment
\* The caller receives the outcome.  A bundle may be kept (in place of an
\* older one when the caller's store is full); a refresh token that was
\* exchanged successfully is remembered as such by the caller.
receber(c) ==
  LET ch == chamada[c]
      r == ch.resultado
      ok == r.tipo = "ok"
      novo == [token |-> r.token, refreshToken |-> r.refreshToken,
               origem |-> ch.op]
      usado == {b.refreshToken : b \in carteira} \cap {ch.refreshToken}
  IN
  /\ ch.pc = "fim"
  /\ chamada' = [chamada EXCEPT ![c] = Ocioso]
  /\ \/ /\ ok
        /\ \E resto \in SUBSET carteira :
             /\ Cardinality(resto) < MaxPool
             /\ Cardinality(resto) >= Cardinality(carteira) - 1
             /\ carteira' = resto \cup {novo}
             /\ trocados' = (trocados \cup usado)
                              \cap {b.refreshToken : b \in resto \cup {novo}}
     \/ /\ carteira' = carteira
        /\ trocados' = IF ok THEN trocados \cup usado ELSE trocados
  /\ UNCHANGED <<usuarios, agora, pedido>>

\* The caller throws a bundle away.
descartar ==
  /\ \A c \in Chamadas : chamada[c].pc = "ocioso"
  /\ \E b \in carteira :
       /\ carteira' = carteira \ {b}
       /\ trocados' = trocados \ {b.refreshToken}
  /\ UNCHANGED <<usuarios, agora, chamada, pedido>>

\* Another part of the backend changes a user's name, role or password.
alterarUsuario ==
  \E e \in Emails, v \in Versoes :
    /\ usuarios[e] # Nulo
    /\ usuarios' = [usuarios EXCEPT ![e] =
         [@ EXCEPT !.nome = v.nome, !.perfil = v.perfil, !.senha = v.senha]]
    /\ usuarios' # usuarios
    /\ UNCHANGED <<agora, chamada, carteira, trocados, pedido>>

\* Another part of the backend deletes a user.
removerUsuario ==
  \E e \in Emails :
    /\ usuarios[e] # Nulo
    /\ usuarios' = [usuarios EXCEPT ![e] = Nulo]
    /\ UNCHANGED <<agora, chamada, carteira, trocados, pedido>>

\* Time passes.
tick ==
  /\ agora < MaxTime
  /\ agora' = agora + 1
  /\ UNCHANGED <<usuarios, chamada, carteira, trocados, pedido>>

Next ==
  \/ \E c \in Chamadas : login(c)
  \/ \E c \in Chamadas : loginBuscou(c)
  \/ \E c \in Chamadas : loginBuscaFalhou(c)
  \/ \E c \in Chamadas : loginGerarToken(c)
  \/ \E c \in Chamadas : loginGerarRefreshToken(c)
  \/ \E c \in Chamadas : refreshToken(c)
  \/ \E c \in Chamadas : refreshBuscou(c)
  \/ \E c \in Chamadas : refreshBuscaFalhou(c)
  \/ \E c \in Chamadas : refreshGerarToken(c)
  \/ \E c \in Chamadas : refreshGerarRefreshToken(c)
  \/ \E c \in Chamadas : receber(c)
  \/ descartar
  \/ alterarUsuario
  \/ removerUsuario
  \/ tick

\* ========================================================== OngController
Pedidos == {"p1", "p2"}

\* `descricao: Joi.string().required().max(100)`
DescricaoMax == 100

Campos == {"nome", "descricao", "endereco_cidade", "endereco_estado",
           "cnpj", "telefone", "email", "imagem"}
Obrigatorios == Campos \ {"imagem"}

\* Request bodies: the keys present, the length of descricao and whether
\* email has the form of an e-mail address.
Corpo(campos, tamanho, emailOk) ==
  [campos |-> campos, descricao |-> tamanho, emailOk |-> emailOk]
SemCorpo == Corpo({}, 0, TRUE)
Corpos ==
  { Corpo(Campos, 50, TRUE),
    Corpo(Obrigatorios, 100, TRUE),
    Corpo(Campos \ {"nome"}, 50, TRUE),
    Corpo(Campos, 101, TRUE),
    Corpo(Campos, 50, FALSE),
    Corpo({"nome"}, 0, TRUE),
    Corpo({}, 0, TRUE) }

CamposValidos(body) ==
  /\ body.campos \subseteq Campos
  /\ "descricao" \in body.campos => body.descricao <= DescricaoMax
  /\ "email" \in body.campos => body.emailOk

\* The Joi schema of create: every key but imagem is required.
createSchemaValida(body) ==
  /\ Obrigatorios \subseteq body.campos
  /\ CamposValidos(body)

\* The Joi schema of update: every key optional, at least one present.
updateSchemaValida(body) ==
  /\ body.campos # {}
  /\ CamposValidos(body)

Parado ==
  [pc |-> "ocioso", handler |-> "nenhum", body |-> SemCorpo,
   desfecho |-> "nenhum", respostas |-> <<>>]

OngInit == pedido = [p \in Pedidos |-> Parado]

\* A handler is entered and suspends at its await of the service.
Aguardar(p, handler, body) ==
  pedido' = [pedido EXCEPT ![p] =
    [Parado EXCEPT !.pc = "await", !.handler = handler, !.body = body]]

\* `res.status(status).json(...)` / `.end()`, after which the handler ends.
Responder(p, handler, body, desfecho, status, corpo) ==
  pedido' = [pedido EXCEPT ![p] =
    [pc |-> "fim", handler |-> handler, body |-> body, desfecho |-> desfecho,
     respostas |-> Append(pedido[p].respostas,
                          [status |-> status, corpo |-> corpo])]]

\* The handler's promise rejects without a response having been sent.
Rejeitar(p, desfecho) ==
  pedido' = [pedido EXCEPT ![p] = [@ EXCEPT !.pc = "fim", !.desfecho = desfecho]]

Em(p, handler) == pedido[p].pc = "await" /\ pedido[p].handler = handler

getAll(p) ==
  /\ pedido[p].pc = "ocioso"
  /\ Aguardar(p, "getAll", SemCorpo)
  /\ UNCHANGED authVars

getAllResolveu(p) ==
  /\ Em(p, "getAll")
  /\ Responder(p, "getAll", SemCorpo, "resolveu", 200, "ongs")
  /\ UNCHANGED authVars

\* No try/catch around the await: the rejection leaves the handler.
getAllRejeitou(p) ==
  /\ Em(p, "getAll")
  /\ Rejeitar(p, "rejeitou")
  /\ UNCHANGED authVars

getById(p) ==
  /\ pedido[p].pc = "ocioso"
  /\ Aguardar(p, "getById", SemCorpo)
  /\ UNCHANGED authVars

getByIdResolveu(p) ==
  /\ Em(p, "getById")
  /\ Responder(p, "getById", SemCorpo, "resolveu", 200, "ong")
  /\ UNCHANGED authVars

getByIdRejeitou(p) ==
  /\ Em(p, "getById")
  /\ Responder(p, "getById", SemCorpo, "rejeitou", 404, "error.message")
  /\ UNCHANGED authVars

getBeneficiados(p) ==
  /\ pedido[p].pc = "ocioso"
  /\ Aguardar(p, "getBeneficiados", SemCorpo)
  /\ UNCHANGED authVars

getBeneficiadosResolveu(p) ==
  /\ Em(p, "getBeneficiados")
  /\ Responder(p, "getBeneficiados", SemCorpo, "resolveu", 200, "beneficiados")
  /\ UNCHANGED authVars

getBeneficiadosRejeitou(p) ==
  /\ Em(p, "getBeneficiados")
  /\ Responder(p, "getBeneficiados", SemCorpo, "rejeitou", 404, "error.message")
  /\ UNCHANGED authVars

\* Status sent by create when ongService.create rejects.
createStatusDeErro == 409

\* create: the body is validated first; an invalid body is answered at once.
create(p) ==
  /\ pedido[p].pc = "ocioso"
  /\ \E body \in Corpos :
       IF createSchemaValida(body)
         THEN Aguardar(p, "create", body)
         ELSE Responder(p, "create", body, "invalido", 400,
                        "error.details[0].message")
  /\ UNCHANGED authVars

createResolveu(p) ==
  /\ Em(p, "create")
  /\ Responder(p, "create", pedido[p].body, "resolveu", 201, "ong")
  /\ UNCHANGED authVars

createRejeitou(p) ==
  /\ Em(p, "create")
  /\ Responder(p, "create", pedido[p].body, "rejeitou", createStatusDeErro,
               "error.message")
  /\ UNCHANGED authVars

update(p) ==
  /\ pedido[p].pc = "ocioso"
  /\ \E body \in Corpos :
       IF updateSchemaValida(body)
         THEN Aguardar(p, "update", body)
         ELSE Responder(p, "update", body, "invalido", 400,
                        "error.details[0].message")
  /\ UNCHANGED authVars

updateResolveu(p) ==
  /\ Em(p, "update")
  /\ Responder(p, "update", pedido[p].body, "resolveu", 200, "ong")
  /\ UNCHANGED authVars

updateRejeitou(p) ==
  /\ Em(p, "update")
  /\ Responder(p, "update", pedido[p].body, "rejeitou", 404, "error.message")
  /\ UNCHANGED authVars

delete(p) ==
  /\ pedido[p].pc = "ocioso"
  /\ Aguardar(p, "delete", SemCorpo)
  /\ UNCHANGED authVars

deleteResolveu(p) ==
  /\ Em(p, "delete")
  /\ Responder(p, "delete", SemCorpo, "resolveu", 204, "")
  /\ UNCHANGED authVars

deleteRejeitou(p) ==
  /\ Em(p, "delete")
  /\ Responder(p, "delete", SemCorpo, "rejeitou", 404, "error.message")
  /\ UNCHANGED authVars

getProfessores(p) ==
  /\ pedido[p].pc = "ocioso"
  /\ Aguardar(p, "getProfessores", SemCorpo)
  /\ UNCHANGED authVars

getProfessoresResolveu(p) ==
  /\ Em(p, "getProfessores")
  /\ Responder(p, "getProfessores", SemCorpo, "resolveu", 200, "professores")
  /\ UNCHANGED authVars

getProfessoresRejeitou(p) ==
  /\ Em(p, "getProfessores")
  /\ Responder(p, "getProfessores", SemCorpo, "rejeitou", 500, "error.message")
  /\ UNCHANGED authVars

\* The request is over; the slot serves the next one.
proximoPedido(p) ==
  /\ pedido[p].pc = "fim"
  /\ pedido' = [pedido EXCEPT ![p] = Parado]
  /\ UNCHANGED authVars

NextOng ==
  \/ \E p \in Pedidos : getAll(p)
  \/ \E p \in Pedidos : getAllResolveu(p)
  \/ \E p \in Pedidos : getAllRejeitou(p)
  \/ \E p \in Pedidos : getById(p)
  \/ \E p \in Pedidos : getByIdResolveu(p)
  \/ \E p \in Pedidos : getByIdRejeitou(p)
  \/ \E p \in Pedidos : getBeneficiados(p)
  \/ \E p \in Pedidos : getBeneficiadosResolveu(p)
  \/ \E p \in Pedidos : getBeneficiadosRejeitou(p)
  \/ \E p \in Pedidos : create(p)
  \/ \E p \in Pedidos : createResolveu(p)
  \/ \E p \in Pedidos : createRejeitou(p)
  \/ \E p \in Pedidos : update(p)
  \/ \E p \in Pedidos : updateResolveu(p)
  \/ \E p \in Pedidos : updateRejeitou(p)
  \/ \E p \in Pedidos : delete(p)
  \/ \E p \in Pedidos : deleteResolveu(p)
  \/ \E p \in Pedidos : deleteRejeitou(p)
  \/ \E p \in Pedidos : getProfessores(p)
  \/ \E p \in Pedidos : getProfessoresResolveu(p)
  \/ \E p \in Pedidos : getProfessoresRejeitou(p)
  \/ \E p \in Pedidos : proximoPedido(p)

\* ========================================================= specifications
Init == AuthInit /\ OngInit
Spec == Init /\ [][Next]_vars
SpecOng == Init /\ [][NextOng]_vars

\* ================================================================= claims
Fim(c, op) == chamada[c].pc = "fim" /\ chamada[c].op = op

\* The four public fields of a stored row, written out.
Publicos(u) == [id |-> u.id, email |-> u.email, nome |-> u.nome, perfil |-> u.perfil]

\* A token carrying the claims of row u, signed by `chave`, intact, and
\* not yet expired when it was issued.
TokenValido(tk, chave, u) ==
  /\ tk.forma = "jwt"
  /\ tk.sig = [chave |-> chave, sobre |-> tk.payload]
  /\ tk.payload.usuario = Publicos(u)
  /\ tk.payload.iat < tk.payload.exp

\* The presented token is one the service issued as a refresh token.
RefreshEmitido(tk) ==
  /\ tk.forma = "jwt"
  /\ tk.sig = [chave |-> SECRET_REFRESH, sobre |-> tk.payload]

\* C1: a login whose lookup returned the row U stored under the presented
\* e-mail, with the presented credential equal to U's, ends with a bundle:
\* an access token signed with the access secret that verification with
\* that secret accepts and whose claims are U's public fields, a refresh
\* token, and a profile with exactly id, email, nome, perfil of U (no senha).
C1_LoginBemSucedido ==
  \A c \in Chamadas :
    LET ch == chamada[c] IN
    (Fim(c, "login") /\ ch.busca = "achou"
       /\ ch.lido.email = ch.credenciais.email
       /\ ch.lido.senha = ch.credenciais.senha)
    => /\ ch.resultado.tipo = "ok"
       /\ TokenValido(ch.resultado.token, SECRET, ch.lido)
       /\ verify(ch.resultado.token, SECRET,
                 ch.resultado.token.payload.iat).tipo = "ok"
       /\ TokenValido(ch.resultado.refreshToken, SECRET_REFRESH, ch.lido)
       /\ DOMAIN ch.resultado.usuario = {"id", "email", "nome", "perfil"}
       /\ ch.resultado.usuario = Publicos(ch.lido)

\* C1 witness: a login with the right credential has ended, for a row whose
\* password is no longer the initial one.
C1_Witness ==
  \E c \in Chamadas :
    /\ Fim(c, "login")
    /\ chamada[c].busca = "achou"
    /\ chamada[c].lido.senha = chamada[c].credenciais.senha
    /\ chamada[c].lido.senha = "s2"
    /\ chamada[c].resultado.tipo = "ok"

\* C2 (as claimed): a refresh with a validly signed, unexpired refresh token
\* whose e-mail matches no stored user ends with the error
\* "Refresh Token invalido".
C2_RefreshSemUsuarioFalha ==
  \A c \in Chamadas :
    LET ch == chamada[c] IN
    (Fim(c, "refresh") /\ RefreshEmitido(ch.refreshToken)
       /\ ch.inicio < ch.refreshToken.payload.exp
       /\ ch.busca = "nulo")
    => ch.resultado = Erro("Refresh Token invalido")

\* C3: a login that fails because the e-mail matches no user and a login
\* that fails because the credential differs from the stored one end with
\* one and the same error.
C3_FalhaDeLoginUniforme ==
  \A c \in Chamadas :
    LET ch == chamada[c] IN
    (Fim(c, "login")
       /\ \/ ch.busca = "nulo"
          \/ ch.busca = "achou" /\ ch.lido.senha # ch.credenciais.senha)
    => ch.resultado = Erro("Email ou senha invalidos")

\* C3 witness: a login for an e-mail that matches no user has failed.
C3_Witness ==
  \E c \in Chamadas :
    /\ Fim(c, "login")
    /\ chamada[c].busca = "nulo"
    /\ usuarios[chamada[c].credenciais.email] = Nulo
    /\ chamada[c].resultado.tipo = "erro"

\* The presented token is malformed, or not signed with the refresh secret
\* over its payload, or at/past its expiry at time t.
TokenRuim(tk, t) ==
  \/ tk.forma # "jwt"
  \/ tk.sig # [chave |-> SECRET_REFRESH, sobre |-> tk.payload]
  \/ t >= tk.payload.exp

\* C4: a refresh presented with a malformed, wrongly signed or expired token
\* (expired whatever its signature) ends with the single error
\* "Refresh Token invalido", without a lookup and without issuing a token.
C4_RefreshTokenRuimRecusado ==
  \A c \in Chamadas :
    LET ch == chamada[c] IN
    (ch.op = "refresh" /\ TokenRuim(ch.refreshToken, ch.inicio))
    => /\ ch.pc = "fim"
       /\ ch.resultado = Erro("Refresh Token invalido")
       /\ ch.emitidos = 0
       /\ ch.buscas = 0

\* C4 witness: a refresh was refused for a token that is past its expiry
\* and is not signed with the refresh secret.
C4_Witness ==
  \E c \in Chamadas :
    LET ch == chamada[c] IN
    /\ Fim(c, "refresh")
    /\ ch.refreshToken.forma = "jwt"
    /\ ch.refreshToken.sig.chave # SECRET_REFRESH
    /\ ch.inicio >= ch.refreshToken.payload.exp
    /\ ch.resultado.tipo = "erro"

\* Access tokens the service has handed out.
AcessosEmitidos == {b.token : b \in carteira}

\* C5: a refresh presented with a token that was issued as an access token
\* is rejected with "Refresh Token invalido"; it never gets past verify.
C5_AcessoNaoServeDeRefresh ==
  \A c \in Chamadas :
    LET ch == chamada[c] IN
    (ch.op = "refresh"
       /\ \/ ch.refreshToken \in AcessosEmitidos
          \/ /\ ch.refreshToken.forma = "jwt"
             /\ ch.refreshToken.sig = [chave |-> SECRET,
                                       sobre |-> ch.refreshToken.payload])
    => /\ ch.pc = "fim"
       /\ ch.resultado = Erro("Refresh Token invalido")

\* C5 witness: an access token of a held bundle, still unexpired, was
\* presented to refresh and refused.
C5_Witness ==
  \E c \in Chamadas :
    LET ch == chamada[c] IN
    /\ Fim(c, "refresh")
    /\ ch.refreshToken \in AcessosEmitidos
    /\ ch.inicio < ch.refreshToken.payload.exp
    /\ ch.resultado.tipo = "erro"

\* C6: a successful refresh returns the profile of, and issues both tokens
\* for, the row the lookup found under the token's e-mail, not the claims
\* embedded in the presented token.
C6_RefreshUsaRegistroAtual ==
  \A c \in Chamadas :
    LET ch == chamada[c] IN
    (Fim(c, "refresh") /\ ch.resultado.tipo = "ok")
    => /\ ch.busca = "achou"
       /\ ch.lido.email = ch.refreshToken.payload.usuario.email
       /\ ch.resultado.usuario = Publicos(ch.lido)
       /\ ch.resultado.token.payload.usuario = Publicos(ch.lido)
       /\ ch.resultado.refreshToken.payload.usuario = Publicos(ch.lido)

\* C6 witness: a refresh succeeded for a user whose name or role had
\* changed since the presented token was issued.
C6_Witness ==
  \E c \in Chamadas :
    LET ch == chamada[c] IN
    /\ Fim(c, "refresh")
    /\ ch.resultado.tipo = "ok"
    /\ \/ ch.resultado.usuario.nome # ch.refreshToken.payload.usuario.nome
       \/ ch.resultado.usuario.perfil # ch.refreshToken.payload.usuario.perfil

C8_CreateRespondeComoDocumentado ==
  \A p \in Pedidos :
    LET r == pedido[p] IN
    (r.pc = "fim" /\ r.handler = "create")
    => /\ r.desfecho = "resolveu" =>
            r.respostas = <<[status |-> 201, corpo |-> "ong"]>>
       /\ r.desfecho \in {"invalido", "rejeitou"} =>
            /\ Len(r.respostas) = 1
            /\ r.respostas[1].status = 400

\* C9 (as claimed): tokens are issued only after the lookup resolved with a
\* user, and a call whose lookup failed ends with the operation's own
\* authentication error, after one lookup and with no token issued.
C9_FalhaDaBuscaViraErroDeAutenticacao ==
  \A c \in Chamadas :
    LET ch == chamada[c] IN
    /\ ch.emitidos > 0 => ch.busca = "achou"
    /\ (ch.pc = "fim" /\ ch.busca = "falhou")
       => /\ ch.resultado = IF ch.op = "login"
                              THEN Erro("Email ou senha invalidos")
                              ELSE Erro("Refresh Token invalido")
          /\ ch.emitidos = 0
          /\ ch.buscas = 1

\* C10 (as claimed): every handler that has ended has sent exactly one
\* response, also when the body was invalid or the service call rejected.
C10_UmaRespostaPorPedido ==
  \A p \in Pedidos :
    pedido[p].pc = "fim" => Len(pedido[p].respostas) = 1
====
